---- MODULE Spec2Model ----
(***************************************************************************)
(* A model of graphql-faker's value synthesis (fake_schema.ts: the field   *)
(* resolver, the type resolver and the directive lookup) and of the        *)
(* server's handling of the schema texts (index.ts: runServer with its     *)
(* /graphql and /user-sdl handlers).                                       *)
(*                                                                         *)
(* Random draws of the program are nondeterministic choices: an operator   *)
(* that models a random function returns the SET of its possible results.  *)
(***************************************************************************)
EXTENDS Integers, Sequences, FiniteSets, TLC

VARIABLES
  fieldDef,      \* the field definition of the resolver call: wrappers, astNode, extensionNodes
  namedType,     \* the named type the field's type unwraps to: name, astNode, extensionNodes
  call,          \* the last call of a resolver hook: its inputs, its result, what it did
  booted,        \* runServer has run
  heap,          \* the Source objects of the server: id -> body (a text)
  schemaSDL,     \* runServer's variable schemaSDL: a Source id
  extensionSDL,  \* runServer's variable extensionSDL: a Source id, or 0 for null
  file,          \* the text of the file fileName on disk
  requests,      \* the /graphql requests in flight
  written,       \* the texts as the user wrote them: as loaded at start-up or as last saved
  posts,         \* the number of POST /user-sdl handled
  response       \* the last answer of a handler

resolverVars == <<fieldDef, namedType, call>>
serverVars == <<booted, heap, schemaSDL, extensionSDL, file, requests, written, posts, response>>
vars == <<fieldDef, namedType, call, booted, heap, schemaSDL, extensionSDL, file,
          requests, written, posts, response>>

----------------------------------------------------------------------------
(* Bounds of the model *)

\* the largest min or max of a listLength annotation
MaxLen == 2
\* the largest number of extension nodes of a schema element
MaxExt == 1
\* the largest number of tokens of a schema text
MaxTextLen == 2
\* the largest number of POST /user-sdl handled
MaxPosts == 1
\* the largest number of /graphql requests in flight
MaxRequests == 2

----------------------------------------------------------------------------
(* JavaScript values *)

Undefined == [k |-> "undefined"]
Null == [k |-> "null"]
\* an Error instance (the error marker of a failed real value)
ErrorValue == [k |-> "error"]
\* a synchronous throw inside the resolver: the promise of the hook rejects
Thrown == [k |-> "throw"]
Leaf(s) == [k |-> "leaf", v |-> s]
Obj(f) == [k |-> "object", f |-> f]
Arr(s) == [k |-> "array", items |-> s]

NoKeys == [x \in {} |-> Null]

\* the elements of an array
Elements(array) == { array[i] : i \in DOMAIN array }

\* {...a, ...b} on the own enumerable keys of two objects
SpreadOver(a, b) ==
  [x \in (DOMAIN a) \cup (DOMAIN b) |-> IF x \in DOMAIN b THEN b[x] ELSE a[x]]

\* the own enumerable keys {...v} copies: those of an object; the index keys
\* of a string (the strings of the model have one character); none of an
\* Error instance, of null, of undefined
OwnKeys(v) ==
  CASE v.k = "object" -> v.f
    [] v.k = "leaf" -> ("0" :> v)
    [] OTHER -> NoKeys

----------------------------------------------------------------------------
(* fake.ts: the random helpers *)

\* faker.random.number({min, max}): Math.floor of a uniform real of
\* [min, max') with max' = max + 1 when max >= 0 and max' = max otherwise;
\* when max' <= min the real lies in (max', min]
getRandomInt(min, max) ==
  LET top == IF max >= 0 THEN max + 1 ELSE max
  IN IF top > min THEN min .. (top - 1) ELSE top .. min

getRandomItem(array) ==
  { IF (i + 1) \in DOMAIN array THEN array[i + 1] ELSE Undefined :
      i \in getRandomInt(0, Len(array) - 1) }

\* fakeValue(type, options, locale): the generator the fake annotation names
\* draws a string
fakeValue(args) ==
  IF args.type = "city" THEN {Leaf("c"), Leaf("d")} ELSE {Leaf("w")}

\* stdScalarFakers: the default producer of each standard scalar
stdScalarFakers ==
  [String |-> {Leaf("s")}, Boolean |-> {Leaf("t"), Leaf("f")}]

----------------------------------------------------------------------------
(* The schema the hooks are given *)

\* the named types of the schema: the standard scalars String and Boolean,
\* the custom scalar Date, the enum Color, the object types Item and User,
\* the interface Node that both implement and the interface Ghost that no
\* type implements

isEnumType(name) == name = "Color"
isLeafType(name) == name \in {"String", "Boolean", "Date", "Color"}
isAbstractType(name) == name \in {"Node", "Ghost"}
isCompositeType(name) == name \in {"Item", "User", "Node", "Ghost"}

\* type.getValues().map(x => x.value)
getValues(name) == IF name = "Color" THEN <<Leaf("R"), Leaf("G")>> ELSE <<>>

\* schema.getPossibleTypes(abstractType), each type by its name
getPossibleTypes(name) ==
  IF name = "Node" THEN <<Leaf("Item"), Leaf("User")>> ELSE <<>>

\* the wrappers of a field type, outermost first, around its named type
isNonNullType(wrap) == wrap # <<>> /\ Head(wrap) = "NonNull"
isListType(wrap) == wrap # <<>> /\ Head(wrap) = "List"

getNullableType(wrap) == IF isNonNullType(wrap) THEN Tail(wrap) ELSE wrap

----------------------------------------------------------------------------
(* Annotations: the directives of a declaration site *)

Directives == {"fake", "examples", "listLength"}

Node(f, e, l) == [k |-> "node", fake |-> f, examples |-> e, listLength |-> l]
Nodes(items) == [k |-> "nodes", items |-> items]

FakeArgs(t) == [k |-> "args", type |-> t]
ExamplesArgs(values) == [k |-> "args", values |-> values]
ListLengthArgs(min, max) == [k |-> "args", min |-> min, max |-> max]

\* getDirectiveValues(directive, node): the arguments of the directive on
\* this node, undefined when the node does not carry it
getDirectiveValues(directive, node) ==
  CASE directive = "fake" -> node.fake
    [] directive = "examples" -> node.examples
    [] directive = "listLength" -> node.listLength

\* the loop over object.extensionNodes: every node assigns args
RECURSIVE overExtensionNodes(_, _, _)
overExtensionNodes(directive, nodes, args) ==
  IF nodes = <<>> THEN args
  ELSE overExtensionNodes(directive, Tail(nodes), getDirectiveValues(directive, Head(nodes)))

getDirectiveArgs(directive, object) ==
  LET atAst == IF object.astNode # Null
               THEN getDirectiveValues(directive, object.astNode)
               ELSE Undefined
  IN IF object.extensionNodes # Null
     THEN overExtensionNodes(directive, object.extensionNodes.items, atAst)
     ELSE atAst

----------------------------------------------------------------------------
(* fake_schema.ts: the field resolver *)

\* a value callback: undefined, or a function whose call draws from out
ValueCB(out) == [k |-> "cb", out |-> out]

getFakeValueCB(object) ==
  LET args == getDirectiveArgs("fake", object)
  IN IF args = Undefined THEN Undefined ELSE ValueCB(fakeValue(args))

getExampleValueCB(object) ==
  LET args == getDirectiveArgs("examples", object)
  IN IF args = Undefined THEN Undefined ELSE ValueCB(getRandomItem(args.values))

getListLength(object) ==
  LET args == getDirectiveArgs("listLength", object)
  IN IF args # Undefined THEN getRandomInt(args.min, args.max) ELSE getRandomInt(2, 4)

fakeLeafValueCB(name) ==
  IF isEnumType(name) THEN getRandomItem(getValues(name))
  ELSE IF name \in DOMAIN stdScalarFakers THEN stdScalarFakers[name]
  ELSE {Leaf("<" \o name \o ">")}

\* getExampleValueCB(fieldDef) || getFakeValueCB(fieldDef) ||
\* getExampleValueCB(type) || getFakeValueCB(type)
pickValueCB(fd, nt) ==
  IF getExampleValueCB(fd) # Undefined THEN getExampleValueCB(fd)
  ELSE IF getFakeValueCB(fd) # Undefined THEN getFakeValueCB(fd)
  ELSE IF getExampleValueCB(nt) # Undefined THEN getExampleValueCB(nt)
  ELSE getFakeValueCB(nt)

\* a bug: an abstract type is tagged with its own name
typenameOwnName(name) == {Leaf(name)}

\* the __typename of a synthesized object: getRandomItem(...).name throws
\* a TypeError when the draw is undefined
typenameOf(name) ==
  IF isAbstractType(name)
  THEN { IF t = Undefined THEN Thrown ELSE t : t \in getRandomItem(getPossibleTypes(name)) }
  ELSE {Leaf(name)}

\* { __typename, ...(valueCB ? valueCB() : {}) }
taggedObject(typename, value) ==
  Obj(SpreadOver(("__typename" :> typename), OwnKeys(value)))

\* Array(n).fill(null).map(() => item): a RangeError for a negative n, and
\* the throw of an item is the throw of the whole
arraysOf(n, items) ==
  IF n < 0 THEN {Thrown}
  ELSE { Arr(s) : s \in [1 .. n -> items \ {Thrown}] }
       \cup (IF n > 0 /\ Thrown \in items THEN {Thrown} ELSE {})

RECURSIVE fakeValueOfType(_, _, _)
fakeValueOfType(wrap, fd, nt) ==
  IF isNonNullType(wrap) THEN fakeValueOfType(Tail(wrap), fd, nt)
  ELSE IF isListType(wrap)
  THEN UNION { arraysOf(n, fakeValueOfType(Tail(wrap), fd, nt)) : n \in getListLength(fd) }
  ELSE LET valueCB == pickValueCB(fd, nt)
       IN IF isLeafType(nt.name)
          THEN IF valueCB # Undefined THEN valueCB.out ELSE fakeLeafValueCB(nt.name)
          ELSE UNION { IF t = Thrown THEN {Thrown}
                       ELSE IF valueCB # Undefined
                       THEN { taggedObject(t, v) : v \in valueCB.out }
                       ELSE { taggedObject(t, Obj(NoKeys)) } :
                       t \in typenameOf(nt.name) }

\* typeof maybeObject === 'object' && maybeObject !== null && !Array.isArray(maybeObject)
isPlainObject(maybeObject) == maybeObject.k \in {"object", "error"}

\* a bug: the Error check is lost
isErrorNever(defaultResolved) == FALSE

\* defaultResolved instanceof Error
isError(defaultResolved) == defaultResolved.k = "error"

\* a bug: the branches of the ternary are swapped
isMissingInverted(defaultResolved) == defaultResolved # Undefined

\* defaultResolved === undefined
isMissing(defaultResolved) == defaultResolved = Undefined

\* isCompositeType(getNullableType(fieldDef.type))
isCompositeReturn(fd, nt) ==
  getNullableType(fd.type) = <<>> /\ isCompositeType(nt.name)

echoes(isMutation, compositeReturn, resolved) ==
  isMutation /\ compositeReturn /\ isPlainObject(resolved)

\* args[name], undefined for an argument the call does not give
argOf(args, name) == IF name \in DOMAIN args THEN args[name] ELSE Undefined

\* a bug: the single structured input is not unpacked
echoedAlwaysArgs(args) == args

\* Object.keys(args).length === 1 && isPlainObject(inputArg) ? inputArg : args
echoed(args) ==
  IF Cardinality(DOMAIN args) = 1 /\ isPlainObject(argOf(args, "input"))
  THEN OwnKeys(argOf(args, "input"))
  ELSE args

\* the results of one call: the value returned (Thrown: the promise
\* rejects), whether fakeValueOfType ran, whether arguments were spread
fakeFieldResolver(fd, nt, isMutation, args, defaultResolved) ==
  IF isError(defaultResolved)
  THEN {[out |-> defaultResolved, resolved |-> Undefined, synth |-> FALSE, merged |-> FALSE]}
  ELSE LET synth == isMissing(defaultResolved)
           resolvedSet == IF synth THEN fakeValueOfType(fd.type, fd, nt)
                          ELSE {defaultResolved}
       IN { IF resolved = Thrown
            THEN [out |-> Thrown, resolved |-> Undefined, synth |-> synth, merged |-> FALSE]
            ELSE IF echoes(isMutation, isCompositeReturn(fd, nt), resolved)
            THEN [out |-> Obj(SpreadOver(OwnKeys(resolved), echoed(args))),
                  resolved |-> resolved, synth |-> synth, merged |-> TRUE]
            ELSE [out |-> resolved, resolved |-> resolved, synth |-> synth, merged |-> FALSE] :
            resolved \in resolvedSet }

----------------------------------------------------------------------------
(* fake_schema.ts: the type resolver *)

\* defaultTypeResolver(value, context, info, abstractType): the __typename
\* of the value when it is a string; else undefined (the object types of a
\* schema built from text carry no isTypeOf)
defaultTypeResolver(value, abstractType) ==
  IF value.k = "object" /\ "__typename" \in DOMAIN value.f
     /\ value.f["__typename"].k = "leaf"
  THEN {value.f["__typename"]}
  ELSE {Undefined}

fakeTypeResolver(value, abstractType) ==
  UNION { IF defaultResolved \notin {Undefined, Null}
          THEN {defaultResolved}
          ELSE getRandomItem(getPossibleTypes(abstractType)) :
          defaultResolved \in defaultTypeResolver(value, abstractType) }

----------------------------------------------------------------------------
(* The inputs of the resolver hooks *)

SeqsUpTo(S, n) == UNION { [1 .. m -> S] : m \in 0 .. n }

NoDirective == Node(Undefined, Undefined, Undefined)

\* declaration sites that carry listLength only
ListLengthNodes ==
  { Node(Undefined, Undefined, ListLengthArgs(min, max)) :
      min \in (0 - 1) .. MaxLen, max \in 0 .. MaxLen }

ExampleLeaves == ExamplesArgs(<<Leaf("a"), Leaf("b")>>)
ExampleOther == ExamplesArgs(<<Leaf("e")>>)
ExampleObjects ==
  ExamplesArgs(<<Obj(("__typename" :> Leaf("Bogus")) @@ ("id" :> Leaf("9"))),
                 Obj(("id" :> Leaf("8")))>>)

\* declaration sites that carry fake, examples, both or neither
ValueNodes ==
  { NoDirective,
    Node(FakeArgs("city"), Undefined, Undefined),
    Node(Undefined, ExampleLeaves, Undefined),
    Node(Undefined, ExampleObjects, Undefined),
    Node(FakeArgs("city"), ExampleLeaves, Undefined) }

Sites(astNodes, extNodes) ==
  { [astNode |-> a, extensionNodes |-> e] :
      a \in astNodes \cup {Null},
      e \in {Null} \cup { Nodes(x) : x \in SeqsUpTo(extNodes, MaxExt) } }

\* list fields: the declaration sites of the field vary in listLength
ListFields ==
  { [fd |-> [type |-> w, astNode |-> s.astNode, extensionNodes |-> s.extensionNodes],
     nt |-> [name |-> n, astNode |-> NoDirective, extensionNodes |-> Null]] :
      w \in {<<"List">>, <<"NonNull", "List", "NonNull">>, <<"List", "List">>},
      n \in {"Date"},
      s \in Sites(ListLengthNodes \cup {NoDirective},
                  {NoDirective, Node(Undefined, Undefined, ListLengthArgs(1, 1))}) }
  \cup
  { [fd |-> [type |-> <<"List">>, astNode |-> a, extensionNodes |-> Null],
     nt |-> [name |-> n, astNode |-> NoDirective, extensionNodes |-> Null]] :
      n \in {"Color", "Node", "Ghost"},
      a \in {NoDirective, Node(Undefined, ExampleLeaves, ListLengthArgs(0, 1))} }

\* fields of a named type: the declaration sites of the field and of the
\* type vary in fake and examples
ValueFields ==
  { [fd |-> [type |-> w, astNode |-> s.astNode, extensionNodes |-> s.extensionNodes],
     nt |-> [name |-> n, astNode |-> t.astNode, extensionNodes |-> t.extensionNodes]] :
      w \in {<<>>, <<"NonNull">>},
      n \in {"String", "Date", "Color", "Item", "Node", "Ghost"},
      s \in Sites(ValueNodes,
                  {NoDirective, Node(Undefined, ExampleOther, Undefined)}),
      t \in { [astNode |-> a, extensionNodes |-> e] :
                a \in {Null, Node(FakeArgs("word"), Undefined, Undefined),
                       Node(Undefined, ExampleOther, Undefined),
                       Node(Undefined, ExampleObjects, Undefined)},
                e \in {Null, Nodes(<<NoDirective>>)} } }

\* the arguments of a call
ArgSets ==
  { NoKeys,
    ("input" :> Obj(("name" :> Leaf("x")))),
    ("input" :> Obj(("name" :> Leaf("x")))) @@ ("id" :> Leaf("7")),
    ("input" :> Leaf("x")),
    ("name" :> Leaf("y")),
    ("input" :> Obj(("__typename" :> Leaf("Bogus")))) }

\* what defaultFieldResolver yields: nothing, null, an Error, a leaf, a
\* list of leaves, objects
RealValues ==
  { Undefined, Null, ErrorValue, Leaf("r"), Arr(<<Leaf("r"), Leaf("q")>>),
    Obj(("name" :> Leaf("n")) @@ ("id" :> Leaf("1"))),
    Obj(("__typename" :> Leaf("Item")) @@ ("name" :> Leaf("n"))) }

\* the values the type resolver is asked about
TypedValues ==
  { Obj(NoKeys), Obj(("__typename" :> Leaf("User"))),
    Obj(("__typename" :> Leaf("Bogus"))), Obj(("id" :> Leaf("1"))) }

----------------------------------------------------------------------------
(* The hooks as operations *)

NoCall == [op |-> "none"]

ResolverIdle ==
  /\ fieldDef = [type |-> <<>>, astNode |-> Null, extensionNodes |-> Null]
  /\ namedType = [name |-> "String", astNode |-> Null, extensionNodes |-> Null]
  /\ call = NoCall

InitResolver ==
  /\ \E c \in ListFields \cup ValueFields :
       /\ fieldDef = c.fd
       /\ namedType = c.nt
  /\ call = NoCall

\* one call of fakeFieldResolver on the field
CallFieldResolver ==
  /\ call = NoCall
  /\ \E isMutation \in BOOLEAN, args \in ArgSets, defaultResolved \in RealValues :
      \E r \in fakeFieldResolver(fieldDef, namedType, isMutation, args, defaultResolved) :
        /\ call' = [op |-> "field", isMutation |-> isMutation, args |-> args,
                    defaultResolved |-> defaultResolved, resolved |-> r.resolved,
                    out |-> r.out, synth |-> r.synth, merged |-> r.merged]
        /\ UNCHANGED <<fieldDef, namedType>>

\* one call of fakeTypeResolver on a value of the field's abstract type
CallTypeResolver ==
  /\ call = NoCall
  /\ isAbstractType(namedType.name)
  /\ \E value \in TypedValues :
       \E r \in fakeTypeResolver(value, namedType.name) :
         /\ call' = [op |-> "type", value |-> value, out |-> r]
         /\ UNCHANGED <<fieldDef, namedType>>

\* one lookup of a directive on the field or on its named type
CallGetDirectiveArgs ==
  /\ call = NoCall
  /\ \E directive \in Directives, on \in {"field", "type"} :
       /\ call' = [op |-> "directive", directive |-> directive, on |-> on,
                   out |-> getDirectiveArgs(directive,
                             IF on = "field" THEN fieldDef ELSE namedType)]
       /\ UNCHANGED <<fieldDef, namedType>>

ServerIdle ==
  /\ booted = FALSE
  /\ heap = <<>>
  /\ schemaSDL = 0
  /\ extensionSDL = 0
  /\ file = <<>>
  /\ requests = {}
  /\ written = Null
  /\ posts = 0
  /\ response = Null

Init == InitResolver /\ ServerIdle

Next ==
  \/ CallFieldResolver /\ UNCHANGED serverVars
  \/ CallTypeResolver /\ UNCHANGED serverVars
  \/ CallGetDirectiveArgs /\ UNCHANGED serverVars

Spec == Init /\ [][Next]_vars

----------------------------------------------------------------------------
(* What the annotations of an element are, by the last-found rule: the     *)
(* primary declaration first, then every extension fragment in order, the  *)
(* last site that carries the annotation being authoritative               *)

sitesOf(object) ==
  (IF object.astNode # Null THEN <<object.astNode>> ELSE <<>>)
  \o (IF object.extensionNodes # Null THEN object.extensionNodes.items ELSE <<>>)

RECURSIVE lastFound(_, _, _)
lastFound(directive, sites, found) ==
  IF sites = <<>> THEN found
  ELSE lastFound(directive, Tail(sites),
                 IF getDirectiveValues(directive, Head(sites)) # Undefined
                 THEN getDirectiveValues(directive, Head(sites))
                 ELSE found)

Declared(directive, object) == lastFound(directive, sitesOf(object), Undefined)

\* the field resolver synthesized a value and returned
Synthesized == call.op = "field" /\ call.synth /\ call.out # Thrown

\* the type of the field is its named type, wrapped in NonNull at most
Unwrapped == fieldDef.type \in {<<>>, <<"NonNull">>}

----------------------------------------------------------------------------
(* C7 *)

\* C7: getDirectiveArgs returns the arguments of the last declaration site
\* of the element (primary declaration, then the extension fragments in
\* order) on which the annotation was found, and undefined only when no
\* site carries it
C7_LastFoundSiteWins ==
  call.op = "directive" =>
    call.out = Declared(call.directive,
                        IF call.on = "field" THEN fieldDef ELSE namedType)

----------------------------------------------------------------------------
(* C1 *)

----------------------------------------------------------------------------
(* C2 *)

\* the values the callback of the first annotation present may draw, in the
\* order examples on the field, fake on the field, examples on the type,
\* fake on the type; undefined when none is present
FirstPresent ==
  IF Declared("examples", fieldDef) # Undefined
    THEN ValueCB(Elements(Declared("examples", fieldDef).values))
  ELSE IF Declared("fake", fieldDef) # Undefined
    THEN ValueCB(fakeValue(Declared("fake", fieldDef)))
  ELSE IF Declared("examples", namedType) # Undefined
    THEN ValueCB(Elements(Declared("examples", namedType).values))
  ELSE IF Declared("fake", namedType) # Undefined
    THEN ValueCB(fakeValue(Declared("fake", namedType)))
  ELSE Undefined

\* C2: the value synthesized at a named type comes from the first
\* annotation present in the order examples on the field, fake on the
\* field, examples on the type, fake on the type: a leaf value is a draw of
\* that callback (a member of the values list for examples), an object is
\* its type tag with a draw of that callback spread over it
C2_CallbackPrecedence ==
  (Synthesized /\ Unwrapped) =>
    IF isLeafType(namedType.name)
    THEN IF FirstPresent # Undefined
         THEN call.resolved \in FirstPresent.out
         ELSE call.resolved \in fakeLeafValueCB(namedType.name)
    ELSE \E v \in (IF FirstPresent # Undefined THEN FirstPresent.out ELSE {Obj(NoKeys)}) :
           /\ DOMAIN call.resolved.f = {"__typename"} \cup DOMAIN OwnKeys(v)
           /\ \A key \in DOMAIN OwnKeys(v) : call.resolved.f[key] = OwnKeys(v)[key]

----------------------------------------------------------------------------
(* C3 *)

\* a real value: one that exists and is neither an error nor an empty marker
IsRealValue(v) == v.k \notin {"undefined", "null", "error"}

\* a site of the element carries the directive
Carries(directive, object) == Declared(directive, object) # Undefined

\* C3: a real value of a leaf or list-of-leaf field is returned exactly as
\* it is, whatever the annotations of the field and of its type, and a
\* value is synthesized only when the default resolution yields none
C3_RealValueReturned ==
  call.op = "field" =>
    /\ (IsRealValue(call.defaultResolved) /\ isLeafType(namedType.name)) =>
         (call.out = call.defaultResolved /\ ~call.merged)
    /\ call.synth => call.defaultResolved = Undefined

\* an annotated leaf field of the mutation root, called with arguments,
\* returned its real value
C3_Witness ==
  /\ call.op = "field"
  /\ isLeafType(namedType.name)
  /\ Carries("examples", fieldDef) /\ Carries("fake", fieldDef)
  /\ call.isMutation
  /\ call.args # NoKeys
  /\ call.defaultResolved = Leaf("r")
  /\ call.out = Leaf("r")

\* a list-of-leaf field with a listLength of one returned a real list of two
C3_WitnessList ==
  /\ call.op = "field"
  /\ isListType(fieldDef.type) /\ isLeafType(namedType.name)
  /\ Carries("listLength", fieldDef)
  /\ call.defaultResolved = Arr(<<Leaf("r"), Leaf("q")>>)
  /\ call.out = call.defaultResolved

----------------------------------------------------------------------------
(* C4 *)

\* C4: an error marker is returned unchanged: nothing is synthesized (so
\* no annotation is looked up) and no argument is merged into it
C4_ErrorPropagated ==
  (call.op = "field" /\ call.defaultResolved.k = "error") =>
    /\ call.out = call.defaultResolved
    /\ ~call.synth
    /\ ~call.merged

\* a composite field of the mutation root, called with arguments, whose
\* default resolution is an error
C4_Witness ==
  /\ call.op = "field"
  /\ call.defaultResolved = ErrorValue
  /\ call.isMutation
  /\ Unwrapped /\ isCompositeType(namedType.name)
  /\ call.args # NoKeys
  /\ call.out = ErrorValue

----------------------------------------------------------------------------
(* C5 *)

\* the parent is the mutation root, the nullable return type is composite
\* and the resolved value is a plain object
EchoCase ==
  /\ call.op = "field"
  /\ call.isMutation
  /\ Unwrapped /\ isCompositeType(namedType.name)
  /\ call.resolved.k = "object"

\* what is spread: the fields of the single plain-object input argument,
\* otherwise all the arguments
SpreadArgs ==
  IF DOMAIN call.args = {"input"} /\ call.args["input"].k = "object"
  THEN call.args["input"].f
  ELSE call.args

\* C5: in the echo case the result is the resolved object with the
\* arguments spread over it: an argument key overrides the same key of the
\* object, every other key of the object is kept; in any other case the
\* resolved value is returned as it is
C5_MutationEcho ==
  (call.op = "field" /\ call.defaultResolved.k # "error" /\ call.out # Thrown) =>
    IF EchoCase
    THEN /\ call.out.k = "object"
         /\ DOMAIN call.out.f = DOMAIN call.resolved.f \cup DOMAIN SpreadArgs
         /\ \A key \in DOMAIN call.out.f :
              call.out.f[key] = IF key \in DOMAIN SpreadArgs
                                THEN SpreadArgs[key]
                                ELSE call.resolved.f[key]
    ELSE call.out = call.resolved

\* the input argument's name overrode the name of a real object, whose id
\* was kept
C5_Witness ==
  /\ EchoCase
  /\ call.args = ("input" :> Obj(("name" :> Leaf("x"))))
  /\ call.resolved = Obj(("name" :> Leaf("n")) @@ ("id" :> Leaf("1")))
  /\ call.out = Obj(("name" :> Leaf("x")) @@ ("id" :> Leaf("1")))

\* two arguments were spread under their own names over a synthesized object
C5_WitnessAllArgs ==
  /\ EchoCase
  /\ call.synth
  /\ Cardinality(DOMAIN call.args) = 2
  /\ DOMAIN call.out.f = {"__typename", "input", "id"}

----------------------------------------------------------------------------
(* C6 *)

PossibleNames(name) == Elements(getPossibleTypes(name))

\* the objects of a result: the result itself, or the items of a list
ObjectsOf(v) ==
  IF v.k = "object" THEN {v}
  ELSE IF v.k = "array" THEN { x \in Elements(v.items) : x.k = "object" }
  ELSE {}

\* C6: every type name the abstract-type resolution yields is a possible
\* type of the abstract type: the result of fakeTypeResolver on any value,
\* the __typename of a synthesized object, and the __typename left on a
\* mutation result after the arguments were spread
C6_AlwaysPossibleType ==
  /\ call.op = "type" => call.out \in PossibleNames(namedType.name)
  /\ (Synthesized /\ isAbstractType(namedType.name)) =>
       \A o \in ObjectsOf(call.resolved) \cup ObjectsOf(call.out) :
         /\ "__typename" \in DOMAIN o.f
         /\ o.f["__typename"] \in PossibleNames(namedType.name)

\* a value with a discriminator of its own
HasTypename(v) == v.k = "object" /\ "__typename" \in DOMAIN v.f

\* an examples annotation on a site of the element has a value with a
\* __typename of its own
SuppliesTypename(object) ==
  \E i \in DOMAIN sitesOf(object) :
    /\ sitesOf(object)[i].examples # Undefined
    /\ \E v \in Elements(sitesOf(object)[i].examples.values) : HasTypename(v)

\* C6, amended: fakeTypeResolver returns the value's own __typename when
\* it has one, and otherwise a possible type, or undefined when the
\* abstract type has none; the __typename of a synthesized object of an
\* abstract type is a possible type unless an examples value or a spread
\* argument supplies a __typename of its own
C6_PossibleTypeUnlessSupplied ==
  /\ call.op = "type" =>
       IF HasTypename(call.value) THEN call.out = call.value.f["__typename"]
       ELSE IF PossibleNames(namedType.name) # {}
       THEN call.out \in PossibleNames(namedType.name)
       ELSE call.out = Undefined
  /\ (Synthesized /\ isAbstractType(namedType.name)) =>
       /\ ObjectsOf(call.out) # {} => PossibleNames(namedType.name) # {}
       /\ ~(SuppliesTypename(fieldDef) \/ SuppliesTypename(namedType)) =>
            /\ \A o \in ObjectsOf(call.resolved) :
                 /\ "__typename" \in DOMAIN o.f
                 /\ o.f["__typename"] \in PossibleNames(namedType.name)
            /\ (call.merged /\ "__typename" \notin DOMAIN SpreadArgs) =>
                 call.out.f["__typename"] \in PossibleNames(namedType.name)

\* a synthesized object of the interface, on the mutation root with its
\* arguments spread, still tagged with an implementation
C6_Witness ==
  /\ Synthesized
  /\ namedType.name = "Node"
  /\ call.merged
  /\ call.args # NoKeys
  /\ call.out.f["__typename"] \in {Leaf("Item"), Leaf("User")}

\* the type resolver drew an implementation for a value without discriminator
C6_WitnessTypeResolver ==
  /\ call.op = "type"
  /\ ~HasTypename(call.value)
  /\ call.out = Leaf("User")

----------------------------------------------------------------------------
(* index.ts: the server and its schema texts *)

\* a text is a sequence of tokens; this one is the placeholder of the root
\* query type
Placeholder == "<RootTypeName>"

RootNames == {"Query", "Root"}

\* the texts a user writes
UserTexts == SeqsUpTo({Placeholder, "def"}, MaxTextLen)

\* the texts an introspection yields
BaseTexts == { <<root, "def">> : root \in RootNames }

\* buildServerSchema(sdl): the schema parsed from the body the Source has now
buildServerSchema(body) == [definitions |-> body]

\* schema.getQueryType().name
getQueryTypeName(schema) ==
  CHOOSE root \in RootNames : root \in Elements(schema.definitions)

\* body.replace(pattern, replacement) with a string pattern: the first
\* occurrence only
replace(body, pattern, replacement) ==
  IF \E i \in DOMAIN body : body[i] = pattern
  THEN LET first == CHOOSE i \in DOMAIN body :
                      /\ body[i] = pattern
                      /\ \A j \in 1 .. (i - 1) : body[j] # pattern
       IN [body EXCEPT ![first] = replacement]
  ELSE body

\* the state in which runServer is called: in extend mode with the Source
\* of the introspection and the Source of the user's file, else with the
\* Source of the user's file and null
InitServer ==
  /\ booted = FALSE
  /\ \E user \in UserTexts :
       \/ /\ heap = <<user>>
          /\ schemaSDL = 1
          /\ extensionSDL = 0
          /\ written = [schemaSDL |-> user, extensionSDL |-> <<>>, edited |-> FALSE]
          /\ file = user
       \/ \E base \in BaseTexts :
            /\ heap = <<base, user>>
            /\ schemaSDL = 1
            /\ extensionSDL = 2
            /\ written = [schemaSDL |-> base, extensionSDL |-> user, edited |-> FALSE]
            /\ file = user
  /\ requests = {}
  /\ posts = 0
  /\ response = Null

\* runServer, up to app.listen
RunServer ==
  /\ ~booted
  /\ booted' = TRUE
  /\ IF extensionSDL # 0
     THEN LET schema == buildServerSchema(heap[schemaSDL])
          IN heap' = [heap EXCEPT ![extensionSDL] =
                        replace(@, Placeholder, getQueryTypeName(schema))]
     ELSE heap' = heap
  /\ UNCHANGED <<schemaSDL, extensionSDL, file, requests, written, posts, response>>

\* a /graphql request starts: the options callback builds the schema and
\* hands it, with the extension Source, to optionsCB
StartRequest ==
  /\ booted
  /\ Cardinality(requests) < MaxRequests
  /\ requests' = requests \cup
       {[schema |-> buildServerSchema(heap[schemaSDL]),
         extensionSDL |-> extensionSDL,
         startBody |-> IF extensionSDL # 0 THEN heap[extensionSDL] ELSE <<>>,
         startWritten |-> written,
         seen |-> Null]}
  /\ UNCHANGED <<booted, heap, schemaSDL, extensionSDL, file, written, posts, response>>

\* a field of a request in flight is resolved: the request reads the
\* schema it was given and the body of the extension Source it was given
ResolveField ==
  \E r \in requests :
    /\ requests' = (requests \ {r}) \cup
         {[r EXCEPT !.seen = [schema |-> r.schema,
                              extension |-> IF r.extensionSDL # 0
                                            THEN heap[r.extensionSDL] ELSE <<>>]]}
    /\ UNCHANGED <<booted, heap, schemaSDL, extensionSDL, file, written, posts, response>>

\* a request in flight is answered
FinishRequest ==
  \E r \in requests :
    /\ requests' = requests \ {r}
    /\ response' = [k |-> "graphql", seen |-> r.seen]
    /\ UNCHANGED <<booted, heap, schemaSDL, extensionSDL, file, written, posts>>

\* GET /user-sdl
GetUserSDL ==
  /\ booted
  /\ response' = [k |-> "user-sdl",
                  schemaSDL |-> heap[schemaSDL],
                  extensionSDL |-> IF extensionSDL # 0 THEN heap[extensionSDL] ELSE <<>>,
                  hasExtension |-> extensionSDL # 0]
  /\ UNCHANGED <<booted, heap, schemaSDL, extensionSDL, file, requests, written, posts>>

\* a bug: the body of the served Source is overwritten
PostUserSDLInPlace ==
  /\ booted
  /\ posts < MaxPosts
  /\ posts' = posts + 1
  /\ \E body \in UserTexts, writes \in BOOLEAN :
       IF writes
       THEN /\ file' = body
            /\ heap' = [heap EXCEPT ![IF extensionSDL = 0 THEN schemaSDL ELSE extensionSDL] = body]
            /\ UNCHANGED <<schemaSDL, extensionSDL>>
            /\ written' = IF extensionSDL = 0
                          THEN [written EXCEPT !.schemaSDL = body, !.edited = TRUE]
                          ELSE [written EXCEPT !.extensionSDL = body, !.edited = TRUE]
            /\ response' = [k |-> "status", code |-> 200]
       ELSE /\ response' = [k |-> "status", code |-> 500]
            /\ UNCHANGED <<heap, schemaSDL, extensionSDL, file, written>>
  /\ UNCHANGED <<booted, requests>>

\* POST /user-sdl: the file is written, a new Source is made of the body
\* and takes the place of the user's Source; when the write throws, the
\* answer is 500 and nothing is replaced
PostUserSDL ==
  /\ booted
  /\ posts < MaxPosts
  /\ posts' = posts + 1
  /\ \E body \in UserTexts, writes \in BOOLEAN :
       IF writes
       THEN /\ file' = body
            /\ heap' = Append(heap, body)
            /\ IF extensionSDL = 0
               THEN schemaSDL' = Len(heap) + 1 /\ UNCHANGED extensionSDL
               ELSE extensionSDL' = Len(heap) + 1 /\ UNCHANGED schemaSDL
            /\ written' = IF extensionSDL = 0
                          THEN [written EXCEPT !.schemaSDL = body, !.edited = TRUE]
                          ELSE [written EXCEPT !.extensionSDL = body, !.edited = TRUE]
            /\ response' = [k |-> "status", code |-> 200]
       ELSE /\ response' = [k |-> "status", code |-> 500]
            /\ UNCHANGED <<heap, schemaSDL, extensionSDL, file, written>>
  /\ UNCHANGED <<booted, requests>>

NextServer ==
  \/ RunServer /\ UNCHANGED resolverVars
  \/ StartRequest /\ UNCHANGED resolverVars
  \/ ResolveField /\ UNCHANGED resolverVars
  \/ FinishRequest /\ UNCHANGED resolverVars
  \/ GetUserSDL /\ UNCHANGED resolverVars
  \/ PostUserSDL /\ UNCHANGED resolverVars

ServerInit == ResolverIdle /\ InitServer

SpecServer == ServerInit /\ [][NextServer]_vars

----------------------------------------------------------------------------
(* C8 *)

\* C8: in extend mode, the extension text of every request holds no
\* placeholder, whether the text was loaded at start-up or saved through
\* POST /user-sdl
C8_NoPlaceholderServed ==
  \A r \in requests :
    r.extensionSDL # 0 =>
      /\ Placeholder \notin Elements(r.startBody)
      /\ Placeholder \notin Elements(heap[r.extensionSDL])

----------------------------------------------------------------------------
(* C9 *)

\* C9: what a request in flight reads is the schema and the extension text
\* of its start, whatever POST /user-sdl was handled since; and a request
\* started after a successful edit was given the text of that edit
C9_RequestSnapshot ==
  \A r \in requests :
    /\ r.seen # Null =>
         /\ r.seen.schema = r.schema
         /\ r.seen.extension = r.startBody
    /\ r.extensionSDL # 0 => heap[r.extensionSDL] = r.startBody
    /\ r.startWritten.edited =>
         IF r.extensionSDL # 0
         THEN r.startBody = r.startWritten.extensionSDL
         ELSE r.schema.definitions = r.startWritten.schemaSDL

\* a request of extend mode that started before the last edit reads, after
\* it, the text of its start, which is not the served text any more
C9_Witness ==
  \E r \in requests :
    /\ r.extensionSDL # 0
    /\ r.extensionSDL # extensionSDL
    /\ r.seen # Null
    /\ r.seen.extension = r.startBody
    /\ heap[extensionSDL] # r.startBody

\* a request that started after an edit was given the saved text
C9_WitnessAfterEdit ==
  \E r \in requests :
    /\ r.startWritten.edited
    /\ r.extensionSDL = 0
    /\ r.schema.definitions = written.schemaSDL
    /\ posts = MaxPosts

----------------------------------------------------------------------------
(* C10 *)

\* C10: runServer leaves its inputs as they are: the extension Source
\* holds the text the user wrote (as loaded, or as last saved), GET
\* /user-sdl answers with it, and the base text is unchanged
C10_InputsNotMutated ==
  booted =>
    /\ heap[schemaSDL] = written.schemaSDL
    /\ extensionSDL # 0 => heap[extensionSDL] = written.extensionSDL
    /\ (response.k = "user-sdl" /\ response.hasExtension) =>
         response.extensionSDL = written.extensionSDL

====
